---- MODULE Spec2Model ----
(***************************************************************************)
(* Music-Note-Detector-Flask: the segment-analysis core                    *)
(* (src/utils/audio_processor.py, src/utils/note_detector.py,              *)
(* src/config.py) as a state machine.                                      *)
(*                                                                         *)
(* Number representation.  The program computes in floats; the model uses  *)
(* fixed point:                                                            *)
(*   frequency   integer centi-hertz          (44000 = 440.00 Hz)          *)
(*   confidence  integer thousandths          (1000  = 1.0)                *)
(*   time        the exact fraction start/sr  ([num, den])                 *)
(*   progress    the exact fraction (i+1)/total_segments ([num, den])      *)
(*   energy      the exact mean square ([num, den]) of the preprocessed    *)
(*               segment, or the RMS rounded to thousandths                *)
(* Values the program obtains from numeric libraries (the Butterworth      *)
(* filter, np.correlate, np.fft, librosa.piptrack, parselmouth) are inputs *)
(* of the model: they are fixed with the waveform in Init.                 *)
(***************************************************************************)
EXTENDS Integers, Sequences, FiniteSets, TLC

\* ------------------------------------------------------------------ bounds

\* Longest waveform, counted in whole hops.
MaxSegs == 2

\* Largest frequency handed to the note mapper on the fine grid, in centi-hertz.
MaxNoteFreq == 1500

\* Longest note history and longest frequency history.
MaxHist == 3

\* Largest total_segments of an analyze request.
MaxTotal == 2

\* ----------------------------------------------------------- arithmetic

Min(a, b) == IF a < b THEN a ELSE b

Max(a, b) == IF a > b THEN a ELSE b

Abs(a) == IF a < 0 THEN -a ELSE a

RECURSIVE Gcd(_, _)
Gcd(a, b) == IF b = 0 THEN Abs(a) ELSE Gcd(b, a % b)

\* floor(num * 100 / den) for num >= 0, den > 0, without leaving 32 bits.
ScaledDiv100(num, den) == (num \div den) * 100 + ((num % den) * 100) \div den

\* Division that truncates toward zero.
TruncDiv(a, b) == IF a >= 0 THEN a \div b ELSE -((-a) \div b)

\* Python's // on integers (floor division), also for a negative numerator.
FloorDiv(a, b) == a \div b

\* Python's round() to an integer of the fraction num/den (den > 0):
\* to nearest, ties to the even neighbour.
RoundHalfEven(num, den) ==
    LET q == num \div den
        r2 == 2 * (num % den)
    IN  IF r2 < den THEN q
        ELSE IF r2 > den THEN q + 1
        ELSE IF q % 2 = 0 THEN q ELSE q + 1

\* ------------------------------------------------------------- config.py

HOP_LENGTH_QUICK == [num |-> 1, den |-> 1]

HOP_LENGTH_STANDARD == [num |-> 1, den |-> 4]

HOP_LENGTH_ADVANCED == [num |-> 1, den |-> 10]

\* --------------------------------------------------------------- inputs

\* Sample rates of the loaded file (librosa.load(sr=None) keeps the file's own
\* rate).  8 makes the advanced hop 0; 10 and 20 skip the high-pass filter;
\* 120 makes the advanced hop shorter than the filter's padding; 200 puts lag 0
\* in the autocorrelation search; 22050 is Config.SAMPLE_RATE.
SampleRates == {8, 10, 20, 120, 200, 22050}

\* The mode strings a request can carry: the three the code names, and one it
\* does not name (data.get('mode') is any string).
Modes == {"quick", "standard", "advanced", "fast"}

\* The waveform's content: sample k of a file of the given kind and length.
WaveKinds == {"silence", "dc", "tone", "onset"}

\* The first sample of the sounding part: an onset file is silent in its first half.
SoundFrom(kind, len) ==
    CASE kind = "silence" -> len
      [] kind = "dc"      -> 0
      [] kind = "tone"    -> 0
      [] kind = "onset"   -> (len + 1) \div 2

Sample(kind, len, k) ==
    IF k < SoundFrom(kind, len) THEN 0
    ELSE IF kind = "dc" THEN 1
    ELSE (k % 3) - 1

\* Whether samples start .. start + n - 1 all hold one value.  The sounding part
\* of a tone repeats -1, 0, 1, so the samples that can differ from the first are
\* among the first three of the segment and the first three of the sounding part.
ConstantSegment(kind, len, start, n) ==
    LET from == SoundFrom(kind, len)
        probes == (start .. start + 2) \cup (from .. from + 2)
    IN  \/ kind \in {"silence", "dc"}
        \/ \A k \in { p \in probes : start <= p /\ p < start + n } :
              Sample(kind, len, k) = Sample(kind, len, start)

\* int(sr * seconds): the float product truncated toward zero.
HopSamples(rate, seconds) == (rate * seconds.num) \div seconds.den

\* A hop table that gives the string "fast" the quick row.
HopLengthFastIsQuick(rate, m) ==
    IF m \in {"quick", "fast"} THEN HopSamples(rate, HOP_LENGTH_QUICK)
    ELSE IF m = "standard" THEN HopSamples(rate, HOP_LENGTH_STANDARD)
    ELSE HopSamples(rate, HOP_LENGTH_ADVANCED)

\* analyze_file: the hop length chosen for a mode string.
HopLength(rate, m) ==
    IF m = "quick" THEN HopSamples(rate, HOP_LENGTH_QUICK)
    ELSE IF m = "standard" THEN HopSamples(rate, HOP_LENGTH_STANDARD)
    ELSE HopSamples(rate, HOP_LENGTH_ADVANCED)

\* Waveform lengths tried for a hop h: every whole number of hops up to MaxSegs,
\* alone, plus one sample, and plus all but one sample of a further hop.
WaveLens(h) ==
    IF h = 0 THEN 0 .. MaxSegs
    ELSE { q * h + r : q \in 0 .. MaxSegs, r \in {0, 1, h - 1} }

\* ------------------------------------------------ note_detector.py: notes

A4_FREQUENCY == 44000

NOTE_NAMES == <<"C", "C#", "D", "D#", "E", "F", "F#", "G", "G#", "A", "A#", "B">>

\* The note label frequency_to_note gives a frequency <= 0 and
\* analyze_note_stability leaves out of its count: the one character U+2014.
EM_DASH == <<"U+2014">>

\* The note label of analyze_segment's silent record: the three characters
\* U+00E2 U+20AC U+201D that audio_processor.py line 198 holds.
GATE_NOTE == <<"U+00E2", "U+20AC", "U+201D">>

\* f"{name}{octave}": a label is the pair of its name and its octave.
NoteLabel(name, octave) == <<name, octave>>

\* round(x, 2) of a value in thousandths: to the nearest hundredth, ties to even
\* (Python rounds the binary float, which differs on some exact ties).
Round2(c) == 10 * RoundHalfEven(c, 10)

\* np.log2, tabulated: entry j is 2^((j - 0.5)/1200) * 10^6, the ratio at which
\* the nearest whole cent becomes j.
Pow2HalfCents ==
    <<
       1000289, 1000867, 1001445, 1002024, 1002603, 1003182, 1003762, 1004342, 1004922, 1005502, 1006083, 1006665,
       1007246, 1007828, 1008411, 1008993, 1009576, 1010160, 1010743, 1011327, 1011912, 1012496, 1013081, 1013667,
       1014252, 1014838, 1015425, 1016011, 1016598, 1017186, 1017774, 1018362, 1018950, 1019539, 1020128, 1020717,
       1021307, 1021897, 1022488, 1023078, 1023669, 1024261, 1024853, 1025445, 1026037, 1026630, 1027223, 1027817,
       1028411, 1029005, 1029600, 1030194, 1030790, 1031385, 1031981, 1032577, 1033174, 1033771, 1034368, 1034966,
       1035564, 1036162, 1036761, 1037360, 1037959, 1038559, 1039159, 1039760, 1040360, 1040961, 1041563, 1042165,
       1042767, 1043369, 1043972, 1044575, 1045179, 1045783, 1046387, 1046992, 1047597, 1048202, 1048808, 1049414,
       1050020, 1050627, 1051234, 1051841, 1052449, 1053057, 1053665, 1054274, 1054883, 1055493, 1056103, 1056713,
       1057323, 1057934, 1058546, 1059157, 1059769, 1060381, 1060994, 1061607, 1062221, 1062834, 1063448, 1064063,
       1064678, 1065293, 1065908, 1066524, 1067140, 1067757, 1068374, 1068991, 1069609, 1070227, 1070845, 1071464,
       1072083, 1072702, 1073322, 1073942, 1074563, 1075184, 1075805, 1076427, 1077049, 1077671, 1078294, 1078917,
       1079540, 1080164, 1080788, 1081412, 1082037, 1082662, 1083288, 1083914, 1084540, 1085167, 1085794, 1086421,
       1087049, 1087677, 1088305, 1088934, 1089563, 1090193, 1090823, 1091453, 1092084, 1092715, 1093346, 1093978,
       1094610, 1095242, 1095875, 1096508, 1097142, 1097776, 1098410, 1099045, 1099680, 1100315, 1100951, 1101587,
       1102223, 1102860, 1103497, 1104135, 1104773, 1105411, 1106050, 1106689, 1107329, 1107968, 1108609, 1109249,
       1109890, 1110531, 1111173, 1111815, 1112457, 1113100, 1113743, 1114387, 1115031, 1115675, 1116320, 1116964,
       1117610, 1118256, 1118902, 1119548, 1120195, 1120842, 1121490, 1122138, 1122786, 1123435, 1124084, 1124734,
       1125383, 1126034, 1126684, 1127335, 1127987, 1128638, 1129291, 1129943, 1130596, 1131249, 1131903, 1132557,
       1133211, 1133866, 1134521, 1135177, 1135832, 1136489, 1137145, 1137802, 1138460, 1139118, 1139776, 1140434,
       1141093, 1141753, 1142412, 1143072, 1143733, 1144394, 1145055, 1145716, 1146378, 1147041, 1147704, 1148367,
       1149030, 1149694, 1150358, 1151023, 1151688, 1152353, 1153019, 1153686, 1154352, 1155019, 1155686, 1156354,
       1157022, 1157691, 1158360, 1159029, 1159699, 1160369, 1161039, 1161710, 1162381, 1163053, 1163725, 1164397,
       1165070, 1165743, 1166417, 1167091, 1167765, 1168440, 1169115, 1169790, 1170466, 1171143, 1171819, 1172496,
       1173174, 1173852, 1174530, 1175208, 1175887, 1176567, 1177247, 1177927, 1178607, 1179288, 1179970, 1180652,
       1181334, 1182016, 1182699, 1183383, 1184066, 1184751, 1185435, 1186120, 1186805, 1187491, 1188177, 1188864,
       1189551, 1190238, 1190926, 1191614, 1192302, 1192991, 1193680, 1194370, 1195060, 1195751, 1196442, 1197133,
       1197825, 1198517, 1199209, 1199902, 1200595, 1201289, 1201983, 1202678, 1203373, 1204068, 1204764, 1205460,
       1206156, 1206853, 1207550, 1208248, 1208946, 1209645, 1210344, 1211043, 1211743, 1212443, 1213143, 1213844,
       1214546, 1215247, 1215950, 1216652, 1217355, 1218058, 1218762, 1219466, 1220171, 1220876, 1221581, 1222287,
       1222993, 1223700, 1224407, 1225115, 1225822, 1226531, 1227239, 1227948, 1228658, 1229368, 1230078, 1230789,
       1231500, 1232212, 1232924, 1233636, 1234349, 1235062, 1235775, 1236490, 1237204, 1237919, 1238634, 1239350,
       1240066, 1240782, 1241499, 1242217, 1242934, 1243652, 1244371, 1245090, 1245809, 1246529, 1247249, 1247970,
       1248691, 1249413, 1250135, 1250857, 1251580, 1252303, 1253026, 1253750, 1254475, 1255199, 1255925, 1256650,
       1257376, 1258103, 1258830, 1259557, 1260285, 1261013, 1261742, 1262471, 1263200, 1263930, 1264660, 1265391,
       1266122, 1266854, 1267586, 1268318, 1269051, 1269784, 1270518, 1271252, 1271986, 1272721, 1273457, 1274193,
       1274929, 1275665, 1276402, 1277140, 1277878, 1278616, 1279355, 1280094, 1280834, 1281574, 1282314, 1283055,
       1283797, 1284538, 1285281, 1286023, 1286766, 1287510, 1288254, 1288998, 1289743, 1290488, 1291234, 1291980,
       1292726, 1293473, 1294220, 1294968, 1295716, 1296465, 1297214, 1297964, 1298714, 1299464, 1300215, 1300966,
       1301718, 1302470, 1303222, 1303975, 1304729, 1305483, 1306237, 1306992, 1307747, 1308502, 1309259, 1310015,
       1310772, 1311529, 1312287, 1313045, 1313804, 1314563, 1315323, 1316083, 1316843, 1317604, 1318365, 1319127,
       1319889, 1320652, 1321415, 1322178, 1322942, 1323707, 1324471, 1325237, 1326002, 1326769, 1327535, 1328302,
       1329070, 1329838, 1330606, 1331375, 1332144, 1332914, 1333684, 1334454, 1335225, 1335997, 1336769, 1337541,
       1338314, 1339087, 1339861, 1340635, 1341410, 1342185, 1342960, 1343736, 1344513, 1345289, 1346067, 1346845,
       1347623, 1348401, 1349180, 1349960, 1350740, 1351520, 1352301, 1353083, 1353864, 1354647, 1355429, 1356213,
       1356996, 1357780, 1358565, 1359350, 1360135, 1360921, 1361707, 1362494, 1363281, 1364069, 1364857, 1365646,
       1366435, 1367224, 1368014, 1368805, 1369596, 1370387, 1371179, 1371971, 1372764, 1373557, 1374351, 1375145,
       1375939, 1376734, 1377530, 1378326, 1379122, 1379919, 1380716, 1381514, 1382312, 1383111, 1383910, 1384709,
       1385510, 1386310, 1387111, 1387913, 1388714, 1389517, 1390320, 1391123, 1391927, 1392731, 1393536, 1394341,
       1395147, 1395953, 1396759, 1397566, 1398374, 1399182, 1399990, 1400799, 1401608, 1402418, 1403229, 1404039,
       1404851, 1405662, 1406474, 1407287, 1408100, 1408914, 1409728, 1410542, 1411357, 1412173, 1412989, 1413805,
       1414622, 1415439, 1416257, 1417076, 1417894, 1418714, 1419533, 1420353, 1421174, 1421995, 1422817, 1423639,
       1424462, 1425285, 1426108, 1426932, 1427757, 1428581, 1429407, 1430233, 1431059, 1431886, 1432713, 1433541,
       1434369, 1435198, 1436027, 1436857, 1437687, 1438518, 1439349, 1440181, 1441013, 1441846, 1442679, 1443512,
       1444346, 1445181, 1446016, 1446851, 1447687, 1448524, 1449361, 1450198, 1451036, 1451874, 1452713, 1453553,
       1454393, 1455233, 1456074, 1456915, 1457757, 1458599, 1459442, 1460285, 1461129, 1461973, 1462818, 1463663,
       1464509, 1465355, 1466201, 1467049, 1467896, 1468744, 1469593, 1470442, 1471292, 1472142, 1472992, 1473843,
       1474695, 1475547, 1476400, 1477253, 1478106, 1478960, 1479815, 1480670, 1481525, 1482381, 1483238, 1484095,
       1484952, 1485810, 1486669, 1487528, 1488387, 1489247, 1490108, 1490969, 1491830, 1492692, 1493555, 1494418,
       1495281, 1496145, 1497009, 1497874, 1498740, 1499606, 1500472, 1501339, 1502207, 1503075, 1503943, 1504812,
       1505682, 1506552, 1507422, 1508293, 1509164, 1510036, 1510909, 1511782, 1512655, 1513529, 1514404, 1515279,
       1516154, 1517030, 1517907, 1518784, 1519661, 1520540, 1521418, 1522297, 1523177, 1524057, 1524937, 1525818,
       1526700, 1527582, 1528465, 1529348, 1530232, 1531116, 1532000, 1532886, 1533771, 1534657, 1535544, 1536431,
       1537319, 1538207, 1539096, 1539985, 1540875, 1541765, 1542656, 1543548, 1544439, 1545332, 1546225, 1547118,
       1548012, 1548906, 1549801, 1550697, 1551593, 1552489, 1553386, 1554284, 1555182, 1556080, 1556980, 1557879,
       1558779, 1559680, 1560581, 1561483, 1562385, 1563288, 1564191, 1565095, 1565999, 1566904, 1567809, 1568715,
       1569621, 1570528, 1571436, 1572344, 1573252, 1574161, 1575071, 1575981, 1576891, 1577803, 1578714, 1579626,
       1580539, 1581452, 1582366, 1583280, 1584195, 1585110, 1586026, 1586943, 1587860, 1588777, 1589695, 1590614,
       1591533, 1592452, 1593372, 1594293, 1595214, 1596136, 1597058, 1597981, 1598904, 1599828, 1600752, 1601677,
       1602603, 1603529, 1604455, 1605382, 1606310, 1607238, 1608166, 1609096, 1610025, 1610956, 1611886, 1612818,
       1613750, 1614682, 1615615, 1616548, 1617482, 1618417, 1619352, 1620288, 1621224, 1622161, 1623098, 1624036,
       1624974, 1625913, 1626852, 1627792, 1628733, 1629674, 1630616, 1631558, 1632500, 1633444, 1634387, 1635332,
       1636277, 1637222, 1638168, 1639115, 1640062, 1641009, 1641957, 1642906, 1643855, 1644805, 1645755, 1646706,
       1647658, 1648610, 1649562, 1650515, 1651469, 1652423, 1653378, 1654333, 1655289, 1656246, 1657203, 1658160,
       1659118, 1660077, 1661036, 1661996, 1662956, 1663917, 1664878, 1665840, 1666803, 1667766, 1668729, 1669694,
       1670658, 1671624, 1672589, 1673556, 1674523, 1675490, 1676458, 1677427, 1678396, 1679366, 1680336, 1681307,
       1682279, 1683251, 1684223, 1685196, 1686170, 1687144, 1688119, 1689094, 1690070, 1691047, 1692024, 1693002,
       1693980, 1694959, 1695938, 1696918, 1697898, 1698879, 1699861, 1700843, 1701826, 1702809, 1703793, 1704777,
       1705762, 1706748, 1707734, 1708721, 1709708, 1710696, 1711684, 1712673, 1713663, 1714653, 1715644, 1716635,
       1717627, 1718619, 1719612, 1720606, 1721600, 1722595, 1723590, 1724586, 1725582, 1726579, 1727577, 1728575,
       1729574, 1730573, 1731573, 1732574, 1733575, 1734576, 1735579, 1736581, 1737585, 1738589, 1739593, 1740598,
       1741604, 1742610, 1743617, 1744625, 1745633, 1746641, 1747650, 1748660, 1749671, 1750682, 1751693, 1752705,
       1753718, 1754731, 1755745, 1756759, 1757774, 1758790, 1759806, 1760823, 1761841, 1762858, 1763877, 1764896,
       1765916, 1766936, 1767957, 1768979, 1770001, 1771023, 1772047, 1773071, 1774095, 1775120, 1776146, 1777172,
       1778199, 1779226, 1780254, 1781283, 1782312, 1783342, 1784372, 1785403, 1786435, 1787467, 1788500, 1789533,
       1790567, 1791602, 1792637, 1793673, 1794709, 1795746, 1796784, 1797822, 1798861, 1799900, 1800940, 1801980,
       1803022, 1804063, 1805106, 1806149, 1807192, 1808236, 1809281, 1810327, 1811373, 1812419, 1813466, 1814514,
       1815563, 1816612, 1817661, 1818711, 1819762, 1820814, 1821866, 1822918, 1823972, 1825026, 1826080, 1827135,
       1828191, 1829247, 1830304, 1831362, 1832420, 1833478, 1834538, 1835598, 1836658, 1837720, 1838781, 1839844,
       1840907, 1841971, 1843035, 1844100, 1845165, 1846231, 1847298, 1848365, 1849433, 1850502, 1851571, 1852641,
       1853711, 1854782, 1855854, 1856926, 1857999, 1859073, 1860147, 1861222, 1862297, 1863373, 1864450, 1865527,
       1866605, 1867684, 1868763, 1869842, 1870923, 1872004, 1873085, 1874168, 1875251, 1876334, 1877418, 1878503,
       1879588, 1880674, 1881761, 1882848, 1883936, 1885025, 1886114, 1887204, 1888294, 1889385, 1890477, 1891569,
       1892662, 1893755, 1894850, 1895944, 1897040, 1898136, 1899233, 1900330, 1901428, 1902527, 1903626, 1904726,
       1905826, 1906928, 1908029, 1909132, 1910235, 1911339, 1912443, 1913548, 1914654, 1915760, 1916867, 1917974,
       1919082, 1920191, 1921301, 1922411, 1923522, 1924633, 1925745, 1926858, 1927971, 1929085, 1930200, 1931315,
       1932431, 1933547, 1934664, 1935782, 1936901, 1938020, 1939140, 1940260, 1941381, 1942503, 1943625, 1944748,
       1945872, 1946996, 1948121, 1949247, 1950373, 1951500, 1952627, 1953756, 1954884, 1956014, 1957144, 1958275,
       1959406, 1960539, 1961671, 1962805, 1963939, 1965074, 1966209, 1967345, 1968482, 1969619, 1970757, 1971896,
       1973035, 1974175, 1975316, 1976457, 1977599, 1978742, 1979885, 1981029, 1982174, 1983319, 1984465, 1985611,
       1986759, 1987907, 1989055, 1990204, 1991354, 1992505, 1993656, 1994808, 1995961, 1997114, 1998268, 1999422
    >>

\* The number of table entries <= r6 among entries lo..hi (the table ascends).
RECURSIVE CentsBelow(_, _, _)
CentsBelow(lo, hi, r6) ==
    IF lo > hi THEN lo - 1
    ELSE LET mid == (lo + hi) \div 2
         IN  IF Pow2HalfCents[mid] <= r6 THEN CentsBelow(mid + 1, hi, r6)
             ELSE CentsBelow(lo, mid - 1, r6)

\* floor(num * 10^6 / den) by long division, three digits at a time.
ScaledDiv6(num, den) ==
    LET q0 == num \div den
        r0 == num % den
        q1 == (r0 * 1000) \div den
        r1 == (r0 * 1000) % den
        q2 == (r1 * 1000) \div den
    IN  q0 * 1000000 + q1 * 1000 + q2

\* The octave k with 440 * 2^k <= f < 440 * 2^(k+1), f > 0 in centi-hertz.
RECURSIVE OctaveFromA4(_)
OctaveFromA4(f) ==
    IF f >= 2 * A4_FREQUENCY THEN 1 + OctaveFromA4(f \div 2)
    ELSE IF f < A4_FREQUENCY THEN OctaveFromA4(2 * f) - 1
    ELSE 0

RECURSIVE Pow2(_)
Pow2(k) == IF k = 0 THEN 1 ELSE 2 * Pow2(k - 1)

\* 12 * np.log2(frequency / A4_FREQUENCY), in cents (hundredths of a semitone),
\* to the nearest cent; frequency > 0 in centi-hertz.
SemitonesFromA4(frequency) ==
    LET k == OctaveFromA4(frequency)
        r6 == IF k >= 0 THEN ScaledDiv6(frequency, A4_FREQUENCY * Pow2(k))
              ELSE ScaledDiv6(frequency * Pow2(-k), A4_FREQUENCY)
    IN  1200 * k + CentsBelow(1, 1200, r6)

\* frequency_to_note for frequency <= 0.
NoPitch ==
    [note |-> EM_DASH, frequency |-> 0, cents |-> 0, octave |-> 0, confidence |-> 0]

\* frequency_to_note from the semitone distance on: the nearest note, the cents
\* deviation (field cents: tenths of a cent), octave, name and confidence.
NoteFromSemitones(frequency, semitones_from_a4) ==
    LET nearest_note_index == RoundHalfEven(semitones_from_a4, 100)
        cents_deviation == semitones_from_a4 - 100 * nearest_note_index
        note_number == nearest_note_index + 69
        octave == FloorDiv(note_number, 12) - 1
        note_index == note_number % 12
        confidence == Max(0, 1000 - 20 * Abs(cents_deviation))
    IN  [note        |-> NoteLabel(NOTE_NAMES[note_index + 1], octave),
         note_name   |-> NOTE_NAMES[note_index + 1],
         octave      |-> octave,
         frequency   |-> frequency,
         cents       |-> 10 * cents_deviation,
         confidence  |-> Round2(confidence),
         midi_number |-> note_number]

frequency_to_note(frequency) ==
    IF frequency <= 0 THEN NoPitch
    ELSE NoteFromSemitones(frequency, SemitonesFromA4(frequency))

\* ------------------------------ note_detector.py: analyze_note_stability

\* None, as a label.
NONE == <<"None">>

\* The labels a note history can hold: the mapper's no-pitch label, two notes,
\* and the label of analyze_segment's silent record.
HistLabels == {EM_DASH, NoteLabel("A", 4), NoteLabel("C", 4), GATE_NOTE}

\* The frequencies a frequency history can hold, in units of 110 Hz.
HistFreqs == {0, 1, 2, 9}

RECURSIVE SeqsUpTo(_, _)
SeqsUpTo(S, n) ==
    IF n = 0 THEN {<<>>}
    ELSE LET shorter == SeqsUpTo(S, n - 1)
         IN  shorter \cup { Append(q, x) : q \in { t \in shorter : Len(t) = n - 1 }, x \in S }

\* note_counts[label] after the counting loop.
NoteCount(h, label) == Cardinality({ k \in 1 .. Len(h) : h[k] = label })

\* The keys of note_counts: the labels counted.
Counted(h) == { h[k] : k \in 1 .. Len(h) } \ {EM_DASH}

\* The position at which a counted label entered note_counts.
FirstIndex(h, label) == CHOOSE k \in 1 .. Len(h) : h[k] = label /\ \A j \in 1 .. k - 1 : h[j] # label

\* A max() that keeps the last of the largest counts.
LastMaxKey(h) ==
    CHOOSE label \in Counted(h) :
      \A other \in Counted(h) :
        \/ NoteCount(h, other) < NoteCount(h, label)
        \/ /\ NoteCount(h, other) = NoteCount(h, label)
           /\ FirstIndex(h, other) <= FirstIndex(h, label)

\* max(note_counts, key=note_counts.get): the keys are visited in insertion
\* order and the first of the largest counts is kept.
MaxKey(h) ==
    CHOOSE label \in Counted(h) :
      \A other \in Counted(h) :
        \/ NoteCount(h, other) < NoteCount(h, label)
        \/ /\ NoteCount(h, other) = NoteCount(h, label)
           /\ FirstIndex(h, label) <= FirstIndex(h, other)

\* Entries 1 .. k of zip(note_history, frequency_history) that any frequency passes.
RECURSIVE DominantFrequenciesAnySign(_, _, _, _)
DominantFrequenciesAnySign(h, fh, dominant_note, k) ==
    IF k = 0 THEN <<>>
    ELSE IF h[k] = dominant_note
         THEN Append(DominantFrequenciesAnySign(h, fh, dominant_note, k - 1), fh[k])
         ELSE DominantFrequenciesAnySign(h, fh, dominant_note, k - 1)

\* The frequencies among entries 1 .. k of zip(note_history, frequency_history)
\* whose note is the dominant one and whose frequency is > 0.
RECURSIVE DominantFrequencies(_, _, _, _)
DominantFrequencies(h, fh, dominant_note, k) ==
    IF k = 0 THEN <<>>
    ELSE IF h[k] = dominant_note /\ fh[k] > 0
         THEN Append(DominantFrequencies(h, fh, dominant_note, k - 1), fh[k])
         ELSE DominantFrequencies(h, fh, dominant_note, k - 1)

RECURSIVE SumSeq(_)
SumSeq(q) == IF q = <<>> THEN 0 ELSE Head(q) + SumSeq(Tail(q))

RECURSIVE SumSquares(_)
SumSquares(q) == IF q = <<>> THEN 0 ELSE Head(q) * Head(q) + SumSquares(Tail(q))

\* The score before rounding, exactly: count/total * (1 - min(cv, 1)) with
\* cv = np.std(d) / np.mean(d) = sqrt(V) / S for S = sum(d) and
\* V = len(d) * sum(x^2) - S^2.  S = 0 makes the quotient 0/0: the score is NaN.
ExactScore(count, total, d) ==
    IF d = <<>> THEN [nan |-> FALSE, count |-> 0, total |-> 1, S |-> 1, V |-> 0]
    ELSE LET S == SumSeq(d)
             V == Len(d) * SumSquares(d) - S * S
         IN  IF S = 0 THEN [nan |-> TRUE]
             ELSE IF V >= S * S
             THEN [nan |-> FALSE, count |-> 0, total |-> 1, S |-> 1, V |-> 0]
             ELSE [nan |-> FALSE, count |-> count, total |-> total, S |-> S, V |-> V]

\* score >= p/q, for q > 0: (q*count - p*total) * S >= q*count * sqrt(V).
\* A NaN compares false.
ScoreAtLeast(score, p, q) ==
    /\ ~score.nan
    /\ q * score.count - p * score.total >= 0
    /\ (q * score.count - p * score.total) * score.S * (q * score.count - p * score.total) * score.S
         >= q * score.count * q * score.count * score.V

\* A threshold test that accepts the threshold itself.
ScoreGreaterOrEqual(score, p, q) == ScoreAtLeast(score, p, q)

\* score > p/q.
ScoreGreater(score, p, q) ==
    /\ ~score.nan
    /\ q * score.count - p * score.total > 0
    /\ (q * score.count - p * score.total) * score.S * (q * score.count - p * score.total) * score.S
         > q * score.count * q * score.count * score.V

\* round(score, 2) in hundredths, 0 <= score <= 1: the nearest hundredth, an
\* exact tie going to the even one.
RoundedScore(score) ==
    LET up == CHOOSE r \in 0 .. 100 :
                /\ ScoreAtLeast(score, 2 * r - 1, 200)
                /\ ~ScoreAtLeast(score, 2 * r + 1, 200)
    IN  IF up % 2 = 1 /\ ~ScoreGreater(score, 2 * up - 1, 200) THEN up - 1 ELSE up

\* stability_score: a number of hundredths, or NaN.
Hundredths(x) == [nan |-> FALSE, hundredths |-> x]

NaN == [nan |-> TRUE]

\* Lines 247-269 for a history with a counted label.
Summary(h, fh, dominant_note) ==
    LET d == DominantFrequencies(h, fh, dominant_note, Min(Len(h), Len(fh)))
        score == ExactScore(NoteCount(h, dominant_note), Len(h), d)
    IN  [ret |-> [stable            |-> ScoreGreater(score, 7, 10),
                  dominant_note     |-> dominant_note,
                  stability_score   |-> IF score.nan THEN NaN
                                        ELSE Hundredths(RoundedScore(score)),
                  dominance_ratio   |-> RoundHalfEven(100 * NoteCount(h, dominant_note), Len(h)),
                  note_distribution |-> [label \in Counted(h) |-> NoteCount(h, label)]],
         cv_of |-> IF d = <<>> THEN <<"none">> ELSE <<"cv", d>>]

\* The record of the two early returns.
NoDominantNote ==
    [stable |-> FALSE, dominant_note |-> NONE, stability_score |-> Hundredths(0)]

\* analyze_note_stability(note_history, frequency_history): the record it
\* returns, and the list it took the coefficient of variation of, if any.
analyze_note_stability(h, fh) ==
    IF h = <<>> THEN [ret |-> NoDominantNote, cv_of |-> <<"none">>]
    ELSE IF Counted(h) = {} THEN [ret |-> NoDominantNote, cv_of |-> <<"none">>]
    ELSE Summary(h, fh, MaxKey(h))

\* --------------------------------------- note_detector.py: the estimators

\* The lag of the strongest periodicity in the modelled recordings.
AcfPeriod(rate) == Max(1, rate \div 440)

\* np.correlate(signal, signal, mode='full')[len // 2:], in thousandths: the
\* autocorrelation at lag k of a recording whose autocorrelation has the given
\* shape.  Lag 0 holds the signal's energy, the largest value.
AcfKinds == {"periodic", "negative", "none", "weak", "edge"}

\* The shapes autocorrelation_pitch is called with on its own: the above, and a
\* recording whose only local maximum is at the lag of fmin = 80 Hz.
AcfShapes == AcfKinds \cup {"low"}

Corr(acf, rate, k) ==
    LET T == AcfPeriod(rate)
        m == k % T
        h == 4000 - 500 * Min(k \div T, 6)
    IN  IF k = 0 THEN 8000
        ELSE CASE acf = "periodic" ->
                    IF m = 0 THEN h
                    ELSE IF m = 1 THEN h - 250
                    ELSE IF m = T - 1 THEN h - 1250
                    ELSE -1000
               [] acf = "negative" -> IF m = 0 THEN -500 ELSE -1500
               [] acf = "none"     -> 0 - k
               [] acf = "weak"     ->
                    IF m = 0 THEN 345 ELSE IF m = 1 THEN 100 ELSE -200
               [] acf = "edge"     -> 8000 - 10 * Min(k, 700)
               [] acf = "low"      -> IF k = rate \div 80 THEN 500 ELSE 0 - k - 1

\* What an estimator hands back: a pair, or the exception it raises.
Estimate(f, c) == [ok |-> TRUE, frequency |-> f, confidence |-> c]

Raises(e) == [ok |-> FALSE, error |-> e]

\* corr after corr[:min_period] = 0, read at a Python index (-1 is the last).
CorrAt(acf, rate, len, min_period, idx) ==
    LET k == IF idx < 0 THEN len + idx ELSE idx
    IN  IF k < min_period THEN 0 ELSE Corr(acf, rate, k)

\* The lags autocorrelation_pitch collects as peaks.
Peaks(acf, rate, len) ==
    LET min_period == rate \div 2000
        max_period == rate \div 80
    IN  { p \in min_period .. (Min(max_period, len - 1) - 1) :
            /\ CorrAt(acf, rate, len, min_period, p)
                 > CorrAt(acf, rate, len, min_period, p - 1)
            /\ CorrAt(acf, rate, len, min_period, p)
                 > CorrAt(acf, rate, len, min_period, p + 1) }

\* peaks.sort(key=value, reverse=True)[0] of the peaks P: the sort is stable, so
\* among the peaks of the largest value the one at the smallest lag comes first.
StrongestPeak(P, acf, rate, len, min_period) ==
    CHOOSE p \in P :
      \A q \in P :
        \/ CorrAt(acf, rate, len, min_period, q) < CorrAt(acf, rate, len, min_period, p)
        \/ /\ CorrAt(acf, rate, len, min_period, q) = CorrAt(acf, rate, len, min_period, p)
           /\ p <= q

BestPeriod(acf, rate, len) ==
    StrongestPeak(Peaks(acf, rate, len), acf, rate, len, rate \div 2000)

\* sr / best_period after the parabolic refinement, in centi-hertz:
\* best_period + x_offset = (p * D + N) / D with N = y3 - y1 and
\* D = 2 * (2 * y2 - y1 - y3), which is > 0 exactly when a < 0.
RefinedFrequency(rate, p, y1, y2, y3) ==
    LET N0 == y3 - y1
        D0 == 2 * (2 * y2 - y1 - y3)
        g == Gcd(N0, D0)
        N == N0 \div g
        D == D0 \div g
    IN  IF D0 > 0 THEN ScaledDiv100(rate * D, p * D + N)
        ELSE ScaledDiv100(rate, p)

\* Lines 117-136 of autocorrelation_pitch for the strongest peak best_period:
\* refine it, divide, clamp the confidence.
FromBestPeriod(acf, rate, len, min_period, best_period) ==
    LET y1 == CorrAt(acf, rate, len, min_period, best_period - 1)
        best_corr == CorrAt(acf, rate, len, min_period, best_period)
        y3 == CorrAt(acf, rate, len, min_period, best_period + 1)
    IN  IF best_period = 0 THEN Raises("ZeroDivisionError")
        ELSE Estimate(RefinedFrequency(rate, best_period, y1, best_corr, y3),
                      Min(1000, best_corr))

\* autocorrelation_pitch(signal, sr) with fmin = 80, fmax = 2000, from the
\* autocorrelation on; len is len(signal) = len(corr).
autocorrelation_pitch(acf, rate, len) ==
    IF Peaks(acf, rate, len) = {} THEN Estimate(0, 0)
    ELSE FromBestPeriod(acf, rate, len, rate \div 2000, BestPeriod(acf, rate, len))

\* The harmonic product spectrum of the modelled recordings: where np.argmax
\* finds its peak in the searched bins, and the peak's prominence
\* hps[peak] / mean(hps[peak-10 : peak+10]), in thousandths.
HpsKinds == {"strong", "weak", "null"}

HpsPeak(hps, rate, len, min_bin, max_bin) ==
    CASE hps = "strong" -> Max(min_bin, Min(max_bin - 1, (440 * len) \div rate))
      [] hps = "weak"   -> min_bin
      [] hps = "null"   -> max_bin - 1

HpsProminence(hps) ==
    CASE hps = "strong" -> 12000
      [] hps = "weak"   -> 3450
      [] hps = "null"   -> 0

\* harmonic_product_spectrum(signal, sr) from the search of the peak on.
\* Bin b of np.fft.rfftfreq(len, 1/sr) is b * sr / len, b = 0 .. len // 2.
harmonic_product_spectrum(hps, rate, len) ==
    LET last == len \div 2
        \* np.where(freq_bins >= 80)[0][0]: the first bin b with b * sr >= 80 * len
        first80 == (80 * len + rate - 1) \div rate
        min_bin == IF first80 <= last THEN first80 ELSE 0
        \* np.where(freq_bins <= 2000)[0][-1]: the last bin b with b * sr <= 2000 * len
        \* (bin 0 always qualifies)
        max_bin == Min(last, (2000 * len) \div rate)
        peak_bin == HpsPeak(hps, rate, len, min_bin, max_bin)
        frequency == ScaledDiv100(peak_bin * rate, len)
        confidence == IF peak_bin > 0 /\ peak_bin < len \div 2
                      THEN Min(1000, HpsProminence(hps) \div 10)
                      ELSE 0
    IN  IF min_bin >= max_bin THEN Raises("ValueError")
        ELSE Estimate(frequency, confidence)

\* A fusion that ignores the weights.
FuseUnweighted(freq1, conf1, freq2, conf2) ==
    IF conf1 > 0 /\ conf2 > 0
    THEN [frequency  |-> (freq1 + freq2) \div 2,
          confidence |-> [num |-> conf1 + conf2, den |-> 2]]
    ELSE IF conf1 > 0
    THEN [frequency |-> freq1, confidence |-> [num |-> conf1, den |-> 1]]
    ELSE IF conf2 > 0
    THEN [frequency |-> freq2, confidence |-> [num |-> conf2, den |-> 1]]
    ELSE [frequency |-> 0, confidence |-> [num |-> 0, den |-> 1]]

\* A fusion that takes any nonzero confidence for a detection.
FuseNonzero(freq1, conf1, freq2, conf2) ==
    IF conf1 # 0 /\ conf2 # 0
    THEN [frequency  |-> (freq1 * conf1 + freq2 * conf2) \div (conf1 + conf2),
          confidence |-> [num |-> conf1 + conf2, den |-> 2]]
    ELSE IF conf1 # 0
    THEN [frequency |-> freq1, confidence |-> [num |-> conf1, den |-> 1]]
    ELSE IF conf2 # 0
    THEN [frequency |-> freq2, confidence |-> [num |-> conf2, den |-> 1]]
    ELSE [frequency |-> 0, confidence |-> [num |-> 0, den |-> 1]]

\* detect_pitch_advanced, the fusion of the two estimates: the frequency, and
\* the confidence as a fraction of thousandths.
Fuse(freq1, conf1, freq2, conf2) ==
    IF conf1 > 0 /\ conf2 > 0
    THEN [frequency  |-> (freq1 * conf1 + freq2 * conf2) \div (conf1 + conf2),
          confidence |-> [num |-> conf1 + conf2, den |-> 2]]
    ELSE IF conf1 > 0
    THEN [frequency |-> freq1, confidence |-> [num |-> conf1, den |-> 1]]
    ELSE IF conf2 > 0
    THEN [frequency |-> freq2, confidence |-> [num |-> conf2, den |-> 1]]
    ELSE [frequency |-> 0, confidence |-> [num |-> 0, den |-> 1]]

\* An estimator call as the segment log keeps it.
Call(name, out) == [estimator |-> name, out |-> out]

\* Lines 217-222: the note of the fused frequency, its confidence overwritten
\* with round(confidence, 2), tagged.
FusedNote(fused) ==
    [frequency_to_note(fused.frequency) EXCEPT
       !.confidence = 10 * RoundHalfEven(fused.confidence.num, 10 * fused.confidence.den)]
    @@ [method |-> "combined"]

\* detect_pitch_advanced once both estimators have answered e1 and e2: the
\* record, or the exception of the first estimator that raised; with the
\* estimator calls made.
Combine(e1, e2) ==
    IF ~e1.ok
    THEN [ok |-> FALSE, error |-> e1.error,
          calls |-> <<Call("autocorrelation_pitch", e1)>>]
    ELSE IF ~e2.ok
    THEN [ok |-> FALSE, error |-> e2.error,
          calls |-> <<Call("autocorrelation_pitch", e1),
                      Call("harmonic_product_spectrum", e2)>>]
    ELSE [ok |-> TRUE,
          calls |-> <<Call("autocorrelation_pitch", e1),
                      Call("harmonic_product_spectrum", e2)>>,
          note_info |-> FusedNote(Fuse(e1.frequency, e1.confidence,
                                       e2.frequency, e2.confidence))]

\* detect_pitch_advanced(signal, sr).
detect_pitch_advanced(timbre, rate, len) ==
    Combine(autocorrelation_pitch(timbre.acf, rate, len),
            harmonic_product_spectrum(timbre.hps, rate, len))

\* ------------------------------------- audio_processor.py: one segment

\* The pitch trackers of the quick and standard modes are libraries; the
\* modelled recordings make them report one of these.
TrackerKinds == {"voiced", "detuned", "unvoiced"}

\* detect_pitch_librosa: the median pitch of the frames with a pitch and the
\* mean of their min(1.0, magnitude / max) confidences, or (0.0, 0.0).
detect_pitch_librosa(trk) ==
    CASE trk = "voiced"   -> Estimate(44000, 1000)
      [] trk = "detuned"  -> Estimate(22650, 455)
      [] trk = "unvoiced" -> Estimate(0, 0)

\* detect_pitch_parselmouth: the median frequency and the mean strength of the
\* voiced frames, or (0.0, 0.0), also when parselmouth raises.
detect_pitch_parselmouth(trk) ==
    CASE trk = "voiced"   -> Estimate(44000, 950)
      [] trk = "detuned"  -> Estimate(22650, 125)
      [] trk = "unvoiced" -> Estimate(0, 0)

\* y[start : start + hop_length] of the waveform, as a function on 1 .. len.
Segment(kind, ylen, start, len) ==
    [j \in 1 .. len |-> Sample(kind, ylen, start + j - 1)]

RECURSIVE SumTo(_, _)
SumTo(f, n) == IF n = 0 THEN 0 ELSE f[n] + SumTo(f, n - 1)

RECURSIVE MaxAbsTo(_, _)
MaxAbsTo(f, n) == IF n = 0 THEN 0 ELSE Max(Abs(f[n]), MaxAbsTo(f, n - 1))

\* scipy.signal.filtfilt pads each end with 3 * max(len(a), len(b)) samples, 18
\* for the 5th-order filter, and raises unless the input is longer.
FiltfiltPadlen == 18

\* The mean square of a high-pass filtered, peak-normalized segment of len
\* samples that is not constant: its largest sample is 1, so it lies between
\* 1/len (one spike) and 1.
Levels == {"spike", "sine"}

FilteredMeanSquare(level, len) ==
    CASE level = "spike" -> [num |-> 1, den |-> len]
      [] level = "sine"  -> [num |-> 1, den |-> 2]

\* preprocess_audio followed by np.mean(y_processed ** 2): the mean square of
\* the preprocessed segment as an exact fraction, or the filter's exception.
\* The samples are kept times len, so that y - mean(y) stays whole; the
\* peak normalization cancels the factor.
PreprocessedMeanSquare(kind, ylen, start, len, rate, level) ==
    LET y == Segment(kind, ylen, start, len)
        total == SumTo(y, len)
        centred == [j \in 1 .. len |-> len * y[j] - total]
        max_val == MaxAbsTo(centred, len)
        squares == SumTo([j \in 1 .. len |-> centred[j] * centred[j]], len)
        g == Gcd(squares, len * max_val * max_val)
    IN  IF rate > 100
        THEN IF len <= FiltfiltPadlen THEN Raises("ValueError")
             ELSE IF ConstantSegment(kind, ylen, start, len)
             THEN [ok |-> TRUE, mean_square |-> [num |-> 0, den |-> 1]]
             ELSE [ok |-> TRUE, mean_square |-> FilteredMeanSquare(level, len)]
        ELSE IF max_val = 0
             THEN [ok |-> TRUE, mean_square |-> [num |-> 0, den |-> 1]]
             ELSE [ok |-> TRUE,
                   mean_square |-> [num |-> squares \div g,
                                    den |-> (len * max_val * max_val) \div g]]

\* The largest r with r * r <= x, for 0 <= x, searched in lo .. hi.
RECURSIVE ISqrt(_, _, _)
ISqrt(x, lo, hi) ==
    IF lo >= hi THEN lo
    ELSE LET mid == (lo + hi + 1) \div 2
         IN  IF mid * mid <= x THEN ISqrt(x, mid, hi) ELSE ISqrt(x, lo, mid - 1)

\* round(energy, 3) in thousandths, energy = sqrt(num/den) <= 1: the nearest
\* r to 1000 * sqrt(num/den) is the largest with (2r - 1)^2 <= 4 * 10^6 * num/den.
RoundedRms(ms) == (ISqrt(ScaledDiv6(4 * ms.num, ms.den), 0, 2000) + 1) \div 2

\* A gate that only catches exact silence.
BelowSilenceThresholdZero(ms) == ms.num = 0

\* energy < 0.01, on the exact mean square.
BelowSilenceThreshold(ms) == 10000 * ms.num < ms.den

\* The energy field of a record that went through an estimator: round(energy, 3).
Rounded(energy) == [rounded |-> TRUE, milli |-> RoundedRms(energy)]

\* A tracker branch that tags the record with the function's name.
TrackerResultTaggedByName(name, tag, est, energy) ==
    [ok |-> TRUE, gated |-> FALSE, measured |-> energy,
     calls |-> <<Call(name, est)>>,
     result |-> [frequency_to_note(est.frequency) EXCEPT !.confidence = est.confidence]
                @@ [method |-> name, energy |-> Rounded(energy)]]

\* Lines 205-216: a tracker's estimate mapped to a note, the mapper's confidence
\* overwritten with the tracker's, tagged with the library's name.
TrackerResult(name, tag, est, energy) ==
    [ok |-> TRUE, gated |-> FALSE, measured |-> energy,
     calls |-> <<Call(name, est)>>,
     result |-> [frequency_to_note(est.frequency) EXCEPT !.confidence = est.confidence]
                @@ [method |-> tag, energy |-> Rounded(energy)]]

\* Lines 218-222 of the advanced branch.
AdvancedResult(adv, energy) ==
    IF ~adv.ok
    THEN [ok |-> FALSE, error |-> adv.error, calls |-> adv.calls]
    ELSE [ok |-> TRUE, gated |-> FALSE, measured |-> energy, calls |-> adv.calls,
          result |-> adv.note_info @@ [energy |-> Rounded(energy)]]

\* Lines 194-222 of analyze_segment, the preprocessed segment's mean square
\* being energy: the silence gate, then the estimator of the method.
GateAndDispatch(energy, method, timbre, rate, len) ==
    IF BelowSilenceThreshold(energy)
    THEN [ok |-> TRUE, gated |-> TRUE, measured |-> energy, calls |-> <<>>,
          result |-> [note       |-> GATE_NOTE,
                      frequency  |-> 0,
                      confidence |-> 0,
                      method     |-> method,
                      energy     |-> [rounded |-> FALSE, mean_square |-> energy]]]
    ELSE IF method = "quick"
    THEN TrackerResult("detect_pitch_librosa", "librosa",
                       detect_pitch_librosa(timbre.trk), energy)
    ELSE IF method = "standard"
    THEN TrackerResult("detect_pitch_parselmouth", "parselmouth",
                       detect_pitch_parselmouth(timbre.trk), energy)
    ELSE AdvancedResult(detect_pitch_advanced(timbre, rate, len), energy)

\* After preprocess_audio: its exception, or the rest of analyze_segment.
AfterPreprocess(pre, method, timbre, rate, len) ==
    IF ~pre.ok THEN [ok |-> FALSE, error |-> pre.error, calls |-> <<>>]
    ELSE GateAndDispatch(pre.mean_square, method, timbre, rate, len)

\* analyze_segment(y, sr, method) on y = the waveform's samples start ..
\* start + len - 1: the record it returns or the exception it raises, with what
\* the segment log keeps (the measured mean square, whether the silence gate
\* fired, the estimator calls).
analyze_segment(kind, ylen, start, len, rate, method, timbre) ==
    AfterPreprocess(PreprocessedMeanSquare(kind, ylen, start, len, rate, timbre.level),
                    method, timbre, rate, len)

\* _format_time(seconds) of the fraction num/den: the fields of
\* HH:MM:SS.ffff, the last one int((seconds % 1) * 10000).
FormatTime(num, den) ==
    LET whole == num \div den
    IN  [hours   |-> whole \div 3600,
         minutes |-> (whole % 3600) \div 60,
         secs    |-> whole % 60,
         frac    |-> ((num % den) * 10000) \div den]

\* ----------------------------------- audio_processor.py: analyze_file

VARIABLES
    sr,                \* the loaded file's sample rate
    mode,              \* the mode string of the call
    y_len,             \* len(y), the waveform's length in samples
    y_kind,            \* the waveform's content (see Sample)
    timbre,            \* what the numeric libraries compute from this recording
    progress_callback, \* whether the caller passed a callback
    pc,                \* where analyze_file is: start, loop, progress, done, failed
    hop_length,
    total_segments,
    i,                 \* the loop index of enumerate()
    results,           \* the list analyze_file returns
    progress_calls,    \* the values handed to progress_callback, in call order
    seg_log,           \* per analyzed segment: start, energy, gate, estimator calls
    error,             \* the exception that ended the call, or "none"
    arg_frequency,     \* frequency_to_note's argument, in centi-hertz
    note_info,         \* what frequency_to_note returned
    note_history,      \* analyze_note_stability's first argument
    frequency_history, \* analyze_note_stability's second argument
    stability,         \* what analyze_note_stability returned
    acf_call,          \* autocorrelation_pitch's arguments
    acf_ret,           \* what autocorrelation_pitch returned, with its peaks
    analysis_progress, \* app.py: the dict's entry for one session key, <<>> if absent
    request,           \* app.py: where each /analyze request for that key is
    served,            \* app.py: the value of the last /progress response, <<>> before
    watching           \* the requests running at the last poll and ever since

vars == <<sr, mode, y_len, y_kind, timbre, progress_callback, pc, hop_length,
          total_segments, i, results, progress_calls, seg_log, error,
          arg_frequency, note_info, note_history, frequency_history, stability,
          acf_call, acf_ret, analysis_progress, request, served, watching>>

\* The state of analyze_file, of the note mapper and of the stability analyzer.
file_vars == <<sr, mode, y_len, y_kind, timbre, progress_callback, pc, hop_length,
               total_segments, i, results, progress_calls, seg_log, error>>

mapper_vars == <<arg_frequency, note_info>>

stability_vars == <<note_history, frequency_history, stability>>

acf_vars == <<acf_call, acf_ret>>

app_vars == <<analysis_progress, request, served, watching>>

\* A function that has not returned yet.
NotCalled == [called |-> FALSE]

\* No call of analyze_file, of frequency_to_note, of analyze_note_stability.
NoFileCall ==
    /\ sr = 22050
    /\ mode = "standard"
    /\ y_len = 0
    /\ y_kind = "silence"
    /\ timbre = [acf |-> "periodic", hps |-> "strong", trk |-> "voiced", level |-> "sine"]
    /\ progress_callback = FALSE
    /\ pc = "idle"
    /\ hop_length = 0
    /\ total_segments = 0
    /\ i = 0
    /\ results = <<>>
    /\ progress_calls = <<>>
    /\ seg_log = <<>>
    /\ error = "none"

NoMapperCall == arg_frequency = 0 /\ note_info = NotCalled

NoStabilityCall ==
    /\ note_history = <<>>
    /\ frequency_history = <<>>
    /\ stability = NotCalled

NoAcfCall ==
    /\ acf_call = [acf |-> "none", rate |-> 22050, len |-> 0]
    /\ acf_ret = NotCalled

\* The clients of the web layer: two /analyze requests for one file.
Requests == {1, 2}

\* An /analyze request that has not arrived, or has returned.
Idle == [at |-> "idle", i |-> 0, n |-> 0, total |-> 0]

NoRequest ==
    /\ analysis_progress = <<>>
    /\ request = [r \in Requests |-> Idle]
    /\ served = <<>>
    /\ watching = {}

inputs == <<sr, mode, y_len, y_kind, timbre, progress_callback>>

DefaultTimbre == [acf |-> "periodic", hps |-> "strong", trk |-> "voiced", level |-> "sine"]

\* The library outcomes that can matter to a call: those of the estimators its
\* mode runs, for a waveform that is not silent throughout.
TimbresFor(rate, m, kind) ==
    LET adv == m \notin {"quick", "standard"}
    IN  IF kind \in {"silence", "dc"} THEN {DefaultTimbre}
        ELSE { [acf |-> a, hps |-> h, trk |-> t, level |-> l] :
                 a \in IF adv /\ rate >= 80 THEN AcfKinds ELSE {DefaultTimbre.acf},
                 h \in IF adv THEN HpsKinds ELSE {DefaultTimbre.hps},
                 t \in IF adv THEN {DefaultTimbre.trk} ELSE TrackerKinds,
                 l \in IF rate > 100 THEN Levels ELSE {DefaultTimbre.level} }

Init ==
    /\ sr \in SampleRates
    /\ mode \in Modes
    /\ y_len \in WaveLens(HopLength(sr, mode))
    /\ y_kind \in WaveKinds
    /\ timbre \in TimbresFor(sr, mode, y_kind)
    /\ progress_callback \in BOOLEAN
    /\ pc = "start"
    /\ hop_length = 0
    /\ total_segments = 0
    /\ i = 0
    /\ results = <<>>
    /\ progress_calls = <<>>
    /\ seg_log = <<>>
    /\ error = "none"
    /\ NoMapperCall
    /\ NoStabilityCall
    /\ NoAcfCall
    /\ NoRequest

\* Lines 238-250: load, choose the hop length, count the segments.  A hop of 0
\* makes the count divide by zero.
Start ==
    /\ pc = "start"
    /\ hop_length' = HopLength(sr, mode)
    /\ IF hop_length' = 0
       THEN /\ pc' = "failed"
            /\ error' = "ZeroDivisionError"
            /\ UNCHANGED total_segments
       ELSE /\ total_segments' = FloorDiv(y_len - hop_length', hop_length') + 1
            /\ pc' = "loop"
            /\ UNCHANGED error
    /\ UNCHANGED <<inputs, i, results, progress_calls, seg_log>>
    /\ UNCHANGED <<mapper_vars, stability_vars, acf_vars, app_vars>>

\* A walk that skips a sample between consecutive segments.
SegmentStartGap(idx, hop) == idx * (hop + 1)

\* The start of the segment of loop index idx: element idx of
\* range(0, len(y) - hop_length, hop_length).
SegmentStart(idx, hop) == idx * hop

\* The range still yields a start for index i: the start lies below its stop.
HasNext == SegmentStart(i, hop_length) < y_len - hop_length

\* time_seconds = start / sr, as the exact fraction.
TimeSeconds(start, rate) == [num |-> start, den |-> rate]

\* Lines 252-264 (and 267 without a callback): take the segment at the next
\* start, analyze it, stamp it, append it.
AnalyzeNext ==
    /\ pc = "loop"
    /\ HasNext
    /\ LET start == SegmentStart(i, hop_length)
           out == analyze_segment(y_kind, y_len, start, hop_length, sr, mode, timbre)
       IN  IF out.ok
           THEN /\ results' = Append(results,
                       out.result @@
                       [time           |-> TimeSeconds(start, sr),
                        time_formatted |-> FormatTime(start, sr)])
                /\ seg_log' = Append(seg_log,
                       [start |-> start, len |-> hop_length, gated |-> out.gated,
                        measured |-> out.measured, calls |-> out.calls])
                /\ IF progress_callback
                   THEN pc' = "progress" /\ UNCHANGED i
                   ELSE pc' = "loop" /\ i' = i + 1
                /\ UNCHANGED error
           ELSE /\ pc' = "failed"
                /\ error' = out.error
                /\ UNCHANGED <<i, results, seg_log>>
    /\ UNCHANGED <<inputs, hop_length, total_segments, progress_calls>>
    /\ UNCHANGED <<mapper_vars, stability_vars, acf_vars, app_vars>>

\* A progress fraction that counts the segments completed before this one.
ProgressBeforeSegment(idx, total) == [num |-> idx, den |-> total]

\* Line 268: progress = (i + 1) / total_segments, as the exact fraction.
ProgressValue(idx, total) == [num |-> idx + 1, den |-> total]

\* Lines 267-269: progress_callback((i + 1) / total_segments).
ReportProgress ==
    /\ pc = "progress"
    /\ progress_calls' = Append(progress_calls, ProgressValue(i, total_segments))
    /\ i' = i + 1
    /\ pc' = "loop"
    /\ UNCHANGED <<inputs, hop_length, total_segments, results, seg_log, error>>
    /\ UNCHANGED <<mapper_vars, stability_vars, acf_vars, app_vars>>

\* Line 271: the range is exhausted, return results.
Return ==
    /\ pc = "loop"
    /\ ~HasNext
    /\ pc' = "done"
    /\ UNCHANGED <<inputs, hop_length, total_segments, i, results, progress_calls,
                   seg_log, error>>
    /\ UNCHANGED <<mapper_vars, stability_vars, acf_vars, app_vars>>

Next == Start \/ AnalyzeNext \/ ReportProgress \/ Return

Spec == Init /\ [][Next]_vars

\* -------------------------------- note_detector.py: frequency_to_note alone

\* The frequencies handed to the mapper: every centi-hertz up to MaxNoteFreq
\* (MIDI numbers below 0 and up to 11), zero and two negative values, and the
\* same grid six octaves higher (MIDI 0 to 83).
NoteFrequencies == (-2 .. MaxNoteFreq) \cup { 64 * f : f \in 1 .. MaxNoteFreq }

InitNote ==
    /\ NoFileCall
    /\ NoStabilityCall
    /\ NoAcfCall
    /\ NoRequest
    /\ arg_frequency \in NoteFrequencies
    /\ note_info = NotCalled

\* frequency_to_note(frequency) runs and returns.
MapNote ==
    /\ note_info = NotCalled
    /\ note_info' = frequency_to_note(arg_frequency)
    /\ UNCHANGED <<file_vars, stability_vars, acf_vars, app_vars, arg_frequency>>

NextNote == MapNote

SpecNote == InitNote /\ [][NextNote]_vars

\* --------------------------- note_detector.py: analyze_note_stability alone

InitStability ==
    /\ NoFileCall
    /\ NoMapperCall
    /\ NoAcfCall
    /\ NoRequest
    /\ note_history \in SeqsUpTo(HistLabels, MaxHist)
    /\ frequency_history \in SeqsUpTo(HistFreqs, MaxHist)
    /\ stability = NotCalled

\* analyze_note_stability(note_history, frequency_history) runs and returns.
Summarize ==
    /\ stability = NotCalled
    /\ stability' = analyze_note_stability(note_history, frequency_history)
    /\ UNCHANGED <<file_vars, mapper_vars, acf_vars, app_vars, note_history, frequency_history>>

NextStability == Summarize

SpecStability == InitStability /\ [][NextStability]_vars

\* ---------------------------- note_detector.py: autocorrelation_pitch alone

\* The sample rates autocorrelation_pitch is called with, and for each the
\* segment lengths of the three modes.
AcfRates == {20, 200, 8000, 22050, 44100}

AcfLens(rate) == { rate \div 10, rate \div 4, rate }

InitAcf ==
    /\ NoFileCall
    /\ NoMapperCall
    /\ NoStabilityCall
    /\ NoRequest
    /\ acf_call \in { [acf |-> a, rate |-> r, len |-> n] :
                        a \in AcfShapes, r \in AcfRates, n \in UNION { AcfLens(q) : q \in AcfRates } }
    /\ acf_call.len \in AcfLens(acf_call.rate)
    /\ acf_ret = NotCalled

\* autocorrelation_pitch(signal, sr) runs; kept with what it returns or raises
\* are the peaks it collected and the lag of peaks[0] (-1 without peaks).
CallAcf ==
    /\ acf_ret = NotCalled
    /\ acf_ret' =
          [peaks |-> Peaks(acf_call.acf, acf_call.rate, acf_call.len),
           best  |-> IF Peaks(acf_call.acf, acf_call.rate, acf_call.len) = {} THEN -1
                     ELSE BestPeriod(acf_call.acf, acf_call.rate, acf_call.len),
           out   |-> autocorrelation_pitch(acf_call.acf, acf_call.rate, acf_call.len)]
    /\ UNCHANGED <<file_vars, mapper_vars, stability_vars, app_vars, acf_call>>

NextAcf == CallAcf

SpecAcf == InitAcf /\ [][NextAcf]_vars

\* ------------------------------------------- app.py: the progress entry

\* What analyze_file will do for a request: total_segments, and the number of
\* segments its loop visits (one fewer when the length is a whole number of hops).
Plans == { [total |-> t, n |-> k] : t \in 0 .. MaxTotal, k \in 0 .. MaxTotal }

PossiblePlan(plan) == plan.n = plan.total \/ (plan.total >= 1 /\ plan.n = plan.total - 1)

\* int(progress * 100) for progress = done / total.
Percent(done, total) == (done * 100) \div total

InitApp ==
    /\ NoFileCall
    /\ NoMapperCall
    /\ NoStabilityCall
    /\ NoAcfCall
    /\ NoRequest

\* analyze_audio, lines 117-132: the request arrives, its entry is set to 0 and
\* analyze_file starts.
BeginAnalysis(r) ==
    /\ request[r].at = "idle"
    /\ \E plan \in Plans :
          /\ PossiblePlan(plan)
          /\ request' = [request EXCEPT ![r] =
                            [at |-> "analyzing", i |-> 0, n |-> plan.n, total |-> plan.total]]
    /\ analysis_progress' = <<0>>
    /\ UNCHANGED <<file_vars, mapper_vars, stability_vars, acf_vars, served, watching>>

\* progress_callback, lines 128-129, called by analyze_file after a segment.
StoreProgress(r) ==
    /\ request[r].at = "analyzing"
    /\ request[r].i < request[r].n
    /\ analysis_progress' = <<Percent(request[r].i + 1, request[r].total)>>
    /\ request' = [request EXCEPT ![r].i = @ + 1]
    /\ UNCHANGED <<file_vars, mapper_vars, stability_vars, acf_vars, served, watching>>

\* analyze_audio, lines 136-158: analyze_file returned, the entry is popped.
FinishAnalysis(r) ==
    /\ request[r].at = "analyzing"
    /\ request[r].i = request[r].n
    /\ analysis_progress' = <<>>
    /\ request' = [request EXCEPT ![r] = Idle]
    /\ watching' = watching \ {r}
    /\ UNCHANGED <<file_vars, mapper_vars, stability_vars, acf_vars, served>>

\* analyze_audio, lines 160-162: analyze_file raised; the entry stays.
FailAnalysis(r) ==
    /\ request[r].at = "analyzing"
    /\ request' = [request EXCEPT ![r] = Idle]
    /\ watching' = watching \ {r}
    /\ UNCHANGED <<file_vars, mapper_vars, stability_vars, acf_vars, analysis_progress, served>>

\* get_progress, lines 166-169: analysis_progress.get(filename, 0).
GetProgress ==
    /\ served' = IF analysis_progress = <<>> THEN <<0>> ELSE analysis_progress
    /\ watching' = { r \in Requests : request[r].at = "analyzing" }
    /\ UNCHANGED <<file_vars, mapper_vars, stability_vars, acf_vars, analysis_progress, request>>

NextApp ==
    \/ \E r \in Requests : BeginAnalysis(r)
    \/ \E r \in Requests : StoreProgress(r)
    \/ \E r \in Requests : FinishAnalysis(r)
    \/ \E r \in Requests : FailAnalysis(r)
    \/ GetProgress

SpecApp == InitApp /\ [][NextApp]_vars

\* ------------------------------------------------------------------ claims

\* C1 (as claimed): when analyze_file returns N >= 1 observations to a caller
\* that passed a callback, the callback was invoked exactly N times, with
\* strictly increasing values, the last of them exactly 1.0.
C1_ProgressEndsAtOne ==
    (pc = "done" /\ progress_callback /\ Len(results) >= 1) =>
        /\ Len(progress_calls) = Len(results)
        /\ \A a, b \in 1 .. Len(progress_calls) :
              a < b => progress_calls[a].num * progress_calls[b].den
                         < progress_calls[b].num * progress_calls[a].den
        /\ progress_calls[Len(progress_calls)].num
             = progress_calls[Len(progress_calls)].den

\* C2 (as claimed): analyze_file returns one observation for every start k * hop
\* with k * hop + hop <= len(y): floor((len - hop) / hop) + 1 of them when
\* len >= hop, none when len < hop.
C2_OneObservationPerFullHop ==
    pc = "done" =>
        Len(results) = Cardinality({ k \in 0 .. y_len : k * hop_length + hop_length <= y_len })

\* C3: the observation at position idx (0-based) has time = idx * hop / sr, the
\* times increase strictly in result order, and observation idx covers the
\* samples idx * hop .. idx * hop + hop - 1 of the waveform: consecutive
\* observations neither overlap nor leave a gap.
C3_TimesAndCoverage ==
    /\ Len(seg_log) = Len(results)
    /\ \A n \in 1 .. Len(results) :
          /\ results[n].time.den = sr
          /\ results[n].time.num = (n - 1) * hop_length
          /\ seg_log[n].start = (n - 1) * hop_length
          /\ seg_log[n].len = hop_length
          /\ seg_log[n].start + seg_log[n].len <= y_len
          /\ n > 1 => /\ seg_log[n].start = seg_log[n - 1].start + seg_log[n - 1].len
                      /\ results[n - 1].time.num * results[n].time.den
                           < results[n].time.num * results[n - 1].time.den

\* C3's case: a call that returned at least two observations.
C3_Witness == pc = "done" /\ Len(results) >= 2

\* The estimators a segment's analysis called, in call order.
EstimatorsCalled(n) == [c \in 1 .. Len(seg_log[n].calls) |-> seg_log[n].calls[c].estimator]

\* The segment of observation n holds only zero samples.
AllZeroSegment(n) == seg_log[n].start + seg_log[n].len <= SoundFrom(y_kind, y_len)

QuickRow == [hop |-> HOP_LENGTH_QUICK, path |-> <<"detect_pitch_librosa">>]

StandardRow == [hop |-> HOP_LENGTH_STANDARD, path |-> <<"detect_pitch_parselmouth">>]

AdvancedRow ==
    [hop |-> HOP_LENGTH_ADVANCED,
     path |-> <<"autocorrelation_pitch", "harmonic_product_spectrum">>]

\* The call used the row: its hop is int(sr * row.hop), and every segment that
\* reached an estimator ran the row's path.
UsesRow(row) ==
    /\ hop_length * row.hop.den <= sr * row.hop.num
    /\ sr * row.hop.num < (hop_length + 1) * row.hop.den
    /\ \A n \in 1 .. Len(seg_log) : ~seg_log[n].gated => EstimatorsCalled(n) = row.path

\* C5 (as claimed): mode fast uses the 1.0 s hop and the peak-tracking
\* estimator, standard the 0.25 s hop and the voiced-pitch tracker, advanced
\* the 0.1 s hop and the Combined Estimator.
C5_ModeTable ==
    pc # "start" =>
        /\ mode = "fast" => UsesRow(QuickRow)
        /\ mode = "standard" => UsesRow(StandardRow)
        /\ mode = "advanced" => UsesRow(AdvancedRow)

\* C5 (amended): the strings the code tells apart are quick (1.0 s hop,
\* peak-tracking estimator) and standard (0.25 s hop, voiced-pitch tracker);
\* every other string, advanced and also fast, gets the 0.1 s hop and the
\* Combined Estimator.  Hop and estimator of one call are of the same row.
C5_ModeTableInCode ==
    pc # "start" =>
        /\ mode = "quick" => UsesRow(QuickRow)
        /\ mode = "standard" => UsesRow(StandardRow)
        /\ mode \notin {"quick", "standard"} => UsesRow(AdvancedRow)
        /\ UsesRow(QuickRow) \/ UsesRow(StandardRow) \/ UsesRow(AdvancedRow)

\* C5's case: a call with the mode string fast returned, and one of its
\* segments reached an estimator.
C5_Witness ==
    /\ pc = "done"
    /\ mode = "fast"
    /\ \E n \in 1 .. Len(seg_log) : ~seg_log[n].gated

\* The two estimates detect_pitch_advanced fused for observation n.
AcfOut(n) == seg_log[n].calls[1].out

HpsOut(n) == seg_log[n].calls[2].out

\* Observation n came from detect_pitch_advanced.
IsCombined(n) == ~seg_log[n].gated /\ Len(seg_log[n].calls) = 2

\* C6: with (f1, c1) from the autocorrelation and (f2, c2) from the harmonic
\* product spectrum, detect_pitch_advanced returns frequency
\* (f1*c1 + f2*c2)/(c1 + c2) and confidence (c1 + c2)/2 when both c1, c2 > 0;
\* the values of the one estimator whose confidence is > 0 when exactly one
\* is; and the no-pitch sentinel with frequency 0 and confidence 0 when
\* neither is.  The confidence of the record is the fused one rounded to two
\* decimals, not the one the note mapper derives from the cents.
C6_Fusion ==
    \A n \in 1 .. Len(seg_log) :
        IsCombined(n) =>
            LET f1 == AcfOut(n).frequency
                c1 == AcfOut(n).confidence
                f2 == HpsOut(n).frequency
                c2 == HpsOut(n).confidence
                r  == results[n]
            IN  /\ (c1 > 0 /\ c2 > 0) =>
                      /\ r.frequency = (f1 * c1 + f2 * c2) \div (c1 + c2)
                      /\ r.confidence = 10 * RoundHalfEven(c1 + c2, 20)
                /\ (c1 > 0 /\ ~(c2 > 0)) =>
                      /\ r.frequency = f1
                      /\ r.confidence = Round2(c1)
                /\ (~(c1 > 0) /\ c2 > 0) =>
                      /\ r.frequency = f2
                      /\ r.confidence = Round2(c2)
                /\ (~(c1 > 0) /\ ~(c2 > 0)) =>
                      /\ r.frequency = 0
                      /\ r.confidence = 0
                      /\ r.note = EM_DASH
                      /\ "midi_number" \notin DOMAIN r

\* C6's case: a fused record whose confidence differs from the confidence the
\* note mapper gives the fused frequency, both estimators being confident
\* with different weights.
C6_Witness ==
    \E n \in 1 .. Len(seg_log) :
        /\ IsCombined(n)
        /\ AcfOut(n).confidence > 0
        /\ HpsOut(n).confidence > AcfOut(n).confidence
        /\ AcfOut(n).frequency # HpsOut(n).frequency
        /\ results[n].confidence # frequency_to_note(results[n].frequency).confidence

\* C7: every observation has 0 <= confidence <= 1 and frequency >= 0, also
\* when the autocorrelation's strongest peak has a negative value.
C7_ConfidenceAndFrequencyRange ==
    \A n \in 1 .. Len(results) :
        /\ 0 <= results[n].confidence
        /\ results[n].confidence <= 1000
        /\ results[n].frequency >= 0

\* C7's case: an observation made from an autocorrelation estimate of negative
\* confidence.
C7_Witness ==
    \E n \in 1 .. Len(seg_log) :
        /\ IsCombined(n)
        /\ AcfOut(n).confidence < 0
        /\ AcfOut(n).frequency > 0

\* C8: for f > 0, with s the semitone distance from A4 in cents,
\* frequency_to_note returns midi_number = n + 69 for the integer n nearest to
\* s/100, |cents| <= 50, octave = floor(midi/12) - 1, and the name at index
\* midi mod 12 of the 12 names, an index in 0..11 also when midi < 0, so that
\* midi = 12 * (octave + 1) + index; for f <= 0 it returns the sentinel with
\* frequency 0, cents 0, octave 0, confidence 0 and no MIDI number.
C8_NoteMapping ==
    note_info # NotCalled =>
        IF arg_frequency > 0
        THEN /\ 2 * Abs(SemitonesFromA4(arg_frequency) - 100 * (note_info.midi_number - 69)) <= 100
             /\ Abs(note_info.cents) <= 500
             /\ 12 * (note_info.octave + 1) <= note_info.midi_number
             /\ note_info.midi_number < 12 * (note_info.octave + 2)
             /\ \E index \in 0 .. 11 :
                   /\ note_info.note_name = NOTE_NAMES[index + 1]
                   /\ note_info.midi_number = 12 * (note_info.octave + 1) + index
             /\ note_info.note = <<note_info.note_name, note_info.octave>>
             /\ note_info.frequency = arg_frequency
        ELSE /\ note_info = [note |-> EM_DASH, frequency |-> 0, cents |-> 0,
                             octave |-> 0, confidence |-> 0]
             /\ "midi_number" \notin DOMAIN note_info

\* C8's case: a frequency mapped to a negative MIDI number that is not a
\* multiple of 12.
C8_Witness ==
    /\ "midi_number" \in DOMAIN note_info
    /\ note_info.midi_number < 0
    /\ note_info.midi_number % 12 # 0

\* C9: for a history with at least one label other than the silent one, the
\* dominant note is the counted label of the highest count, among several of
\* the highest count the one that comes first in the history; the dominance
\* ratio is its count over the whole length of the history; the score is in
\* [0,1]; and stable holds exactly when the score is > 0.7.
C9_DominantNote ==
    (stability # NotCalled /\ Counted(note_history) # {}) =>
        LET ret == stability.ret
            dom == ret.dominant_note
        IN  /\ dom \in Counted(note_history)
            /\ \A other \in Counted(note_history) :
                  /\ NoteCount(note_history, other) <= NoteCount(note_history, dom)
                  /\ NoteCount(note_history, other) = NoteCount(note_history, dom)
                        => FirstIndex(note_history, dom) <= FirstIndex(note_history, other)
            /\ ret.dominance_ratio
                 = RoundHalfEven(100 * NoteCount(note_history, dom), Len(note_history))
            /\ ~ret.stability_score.nan
            /\ 0 <= ret.stability_score.hundredths
            /\ ret.stability_score.hundredths <= 100
            /\ ret.stable <=>
                 ScoreGreater(ExactScore(NoteCount(note_history, dom), Len(note_history),
                                         DominantFrequencies(note_history, frequency_history, dom,
                                             Min(Len(note_history), Len(frequency_history)))),
                              7, 10)

\* C9's case: two labels tie for the highest count, the history also holds a
\* silent entry, and the one that comes first was returned.
C9_Witness ==
    /\ stability # NotCalled
    /\ \E a, b \in Counted(note_history) :
          /\ a # b
          /\ NoteCount(note_history, a) = NoteCount(note_history, b)
          /\ FirstIndex(note_history, a) < FirstIndex(note_history, b)
          /\ stability.ret.dominant_note = a
    /\ \E k \in 1 .. Len(note_history) : note_history[k] = EM_DASH

\* The entries the analyzer pairs up: zip() stops at the shorter history.
Paired == 1 .. Min(Len(note_history), Len(frequency_history))

\* C10: analyze_note_stability always returns a record without NaN: for an
\* empty history and for a history of silent labels only, dominant note none,
\* score 0, stable false; when no entry of the dominant label has a frequency
\* > 0, score 0; and the coefficient of variation is only taken of a non-empty
\* list of frequencies > 0.
C10_StabilityNeverFails ==
    stability # NotCalled =>
        /\ ~stability.ret.stability_score.nan
        /\ (\A k \in 1 .. Len(note_history) : note_history[k] = EM_DASH) =>
              /\ stability.ret.dominant_note = NONE
              /\ stability.ret.stability_score = Hundredths(0)
              /\ stability.ret.stable = FALSE
        /\ (\A k \in Paired : note_history[k] = stability.ret.dominant_note
                                 => frequency_history[k] <= 0) =>
              /\ stability.ret.stability_score = Hundredths(0)
              /\ stability.cv_of[1] = "none"
        /\ stability.cv_of[1] = "cv" =>
              /\ Len(stability.cv_of[2]) > 0
              /\ \A k \in 1 .. Len(stability.cv_of[2]) : stability.cv_of[2][k] > 0

\* C10's case: a history whose dominant note has entries, all paired with
\* frequency 0.
C10_Witness ==
    /\ stability # NotCalled
    /\ stability.ret.dominant_note # NONE
    /\ Len(frequency_history) = Len(note_history)
    /\ \E k \in Paired : note_history[k] = stability.ret.dominant_note
    /\ \A k \in Paired : note_history[k] = stability.ret.dominant_note
                            => frequency_history[k] = 0

\* C11 (as claimed): for the modes fast, standard and advanced, the method tag
\* of every observation is the requested mode, whether the silence gate fired
\* or an estimator ran.
C11_MethodTagIsMode ==
    mode \in {"fast", "standard", "advanced"} =>
        \A n \in 1 .. Len(results) : results[n].method = mode

\* C11 (amended): when the silence gate fires the method tag is the requested
\* mode string; when an estimator runs the tag names the estimator path:
\* librosa for mode quick, parselmouth for mode standard, combined for every
\* other mode string.
C11_MethodTagInCode ==
    \A n \in 1 .. Len(results) :
        IF seg_log[n].gated THEN results[n].method = mode
        ELSE results[n].method =
                 IF mode = "quick" THEN "librosa"
                 ELSE IF mode = "standard" THEN "parselmouth"
                 ELSE "combined"

\* C11's case: a standard-mode call that returned a gated observation and one
\* made by the pitch tracker.
C11_Witness ==
    /\ pc = "done"
    /\ mode = "standard"
    /\ \E a, b \in 1 .. Len(seg_log) : seg_log[a].gated /\ ~seg_log[b].gated

\* C12: analyze_file analyzes segment k, appends its observation, and then
\* calls the callback once with (k + 1) / total_segments before it analyzes
\* segment k + 1: the callback has been called once per appended observation,
\* except between an append and its callback; every reported value is in
\* (0, 1]; total_segments is not 0 when the callback is called.
C12_ProgressOrder ==
    /\ \A k \in 1 .. Len(progress_calls) :
          /\ progress_calls[k].den = total_segments
          /\ progress_calls[k].den # 0
          /\ progress_calls[k].num = k
          /\ 0 < progress_calls[k].num
          /\ progress_calls[k].num <= progress_calls[k].den
    /\ pc = "progress" => total_segments # 0
    /\ progress_callback =>
          IF pc = "progress"
          THEN Len(results) = Len(progress_calls) + 1 /\ i = Len(progress_calls)
          ELSE Len(results) = Len(progress_calls)
    /\ ~progress_callback => progress_calls = <<>>
    /\ \A k \in 1 .. Len(seg_log) : seg_log[k].start = (k - 1) * hop_length

\* C12's case: the callback was called for the first segment and the second
\* segment has been analyzed and appended, its callback still to come.
C12_Witness ==
    /\ pc = "progress"
    /\ Len(progress_calls) >= 1
    /\ Len(results) = Len(progress_calls) + 1

\* The lags C13 names as candidates: floor(sr/fmax) <= lag <= floor(sr/fmin)
\* with fmax = 2000 and fmin = 80, the lag having a right neighbour, the value
\* strictly greater than both neighbours' (values as the function reads them).
ClaimedCandidates(acf, rate, len) ==
    { p \in (rate \div 2000) .. (rate \div 80) :
        /\ p + 1 <= len - 1
        /\ CorrAt(acf, rate, len, rate \div 2000, p)
             > CorrAt(acf, rate, len, rate \div 2000, p - 1)
        /\ CorrAt(acf, rate, len, rate \div 2000, p)
             > CorrAt(acf, rate, len, rate \div 2000, p + 1) }

\* C13 (as claimed): the peaks autocorrelation_pitch collects are exactly the
\* lags from floor(sr/fmax) to floor(sr/fmin), both inclusive, that have a right
\* neighbour and a value strictly greater than both neighbours; without a
\* candidate it returns (0, 0); otherwise it selects a candidate of the largest
\* value and returns sr over a strictly positive refined lag.
C13_CandidatePeaks ==
    acf_ret # NotCalled =>
        /\ acf_ret.peaks = ClaimedCandidates(acf_call.acf, acf_call.rate, acf_call.len)
        /\ ClaimedCandidates(acf_call.acf, acf_call.rate, acf_call.len) = {} =>
              acf_ret.out = Estimate(0, 0)
        /\ ClaimedCandidates(acf_call.acf, acf_call.rate, acf_call.len) # {} =>
              /\ acf_ret.best \in ClaimedCandidates(acf_call.acf, acf_call.rate, acf_call.len)
              /\ \A q \in ClaimedCandidates(acf_call.acf, acf_call.rate, acf_call.len) :
                    CorrAt(acf_call.acf, acf_call.rate, acf_call.len,
                           acf_call.rate \div 2000, q)
                      <= CorrAt(acf_call.acf, acf_call.rate, acf_call.len,
                                acf_call.rate \div 2000, acf_ret.best)
              /\ acf_ret.best > 0
              /\ acf_ret.out.ok
              /\ acf_ret.out.frequency > 0

\* The hop seconds of the row the code gives a mode string.
HopSeconds(m) ==
    IF m = "quick" THEN HOP_LENGTH_QUICK
    ELSE IF m = "standard" THEN HOP_LENGTH_STANDARD
    ELSE HOP_LENGTH_ADVANCED

\* C14 (as claimed): the hop length analyze_file uses is
\* round(sr * hopSeconds[mode]), the nearest integer, and is at least 1.
C14_HopIsRounded ==
    pc # "start" =>
        /\ hop_length = RoundHalfEven(sr * HopSeconds(mode).num, HopSeconds(mode).den)
        /\ hop_length >= 1

\* The note labels and the frequencies of the observations, in result order.
ResultNotes == [n \in 1 .. Len(results) |-> results[n].note]

ResultFrequencies == [n \in 1 .. Len(results) |-> results[n].frequency]

\* C15 (as claimed): the note label of a gated observation is the label
\* frequency_to_note gives a frequency <= 0, the one analyze_note_stability
\* leaves out of its count; so the labels of an analysis whose segments were
\* all gated give dominant note none, score 0, stable false.
C15_GateLabelIsSentinel ==
    /\ \A n \in 1 .. Len(results) :
          seg_log[n].gated => results[n].note = frequency_to_note(0).note
    /\ (pc = "done" /\ results # <<>> /\ \A n \in 1 .. Len(seg_log) : seg_log[n].gated) =>
          analyze_note_stability(ResultNotes, ResultFrequencies).ret = NoDominantNote

\* C16 (as claimed): every value get_progress serves for the session key is
\* an integer in 0..100, and a value served while an analysis of the file is
\* running is not below the value served at the previous poll, if that
\* analysis was already running then; also with two requests for the file.
C16_ServedProgressNeverDecreases ==
    [][ /\ served' # <<>> => served'[1] \in 0 .. 100
        /\ (GetProgress /\ served # <<>>
              /\ \E r \in watching : request[r].at = "analyzing")
             => served'[1] >= served[1] ]_vars

====
